---------------------------- MODULE Spec2Model ----------------------------
(***************************************************************************)
(* Spec: the benchmark harness of src/timingtools.py, one session of       *)
(* SingleArgTimer.min_run_time, which runs Timer.min_run_time over         *)
(* SingleArgTimer.single_run_time, inside run_without_gc and               *)
(* handle_callee_error.                                                    *)
(*                                                                         *)
(* Time is counted in clock ticks.  Every call of timer() returns a        *)
(* reading that is at least the previous one (a non-decreasing clock).     *)
(* The test  time_so_far + run_time/2 > target_time  of line 78 is         *)
(* evaluated over exact arithmetic as                                      *)
(* 2*time_so_far + run_time > 2*target_time.                               *)
(***************************************************************************)
EXTENDS Integers, Sequences, FiniteSets, TLC

\* ------------------------------------------------------------ bounds ---
\* largest value of max_executions that a session is called with
MaxExec == 2
\* cap on the invocations of one session (the loop of a session without
\* max_executions has no bound of its own)
MaxRuns == 3
\* largest advance of the clock between two consecutive readings
MaxStep == 2
\* largest value of target_time that a session is called with
MaxTarget == 2
\* largest value of timeout that a session is called with
MaxTimeout == 1

\* ------------------------------------------------------------ values ---
\* Python's None, for a parameter that is unset; a set value v is <<v>>.
None == <<>>
Some(v) == <<v>>
Val(x) == x[1]

\* float('inf'), the initial best_run_time (line 69); a duration d is <<d>>.
Infinity == <<>>

\* the values the callable's argument is drawn from
Args == {"test"}

\* the exceptions the callable is taken to raise
Raises == {"MemoryError", "ValueError", "KeyboardInterrupt"}

\* the exception classes that derive from Exception (KeyboardInterrupt
\* derives from BaseException only)
IsException(type) == type \in {"MemoryError", "ValueError", "Timeout", "CalleeError"}

\* an exception object: its class, the run that raised it (0: raised by the
\* harness itself) and its recorded cause
Exc(type, run, cause) == [type |-> type, run |-> run, cause |-> cause]

TargetTimes == {None} \cup {Some(t) : t \in 0..MaxTarget}
Timeouts == {None} \cup {Some(t) : t \in 1..MaxTimeout}
MaxExecutions == {None} \cup {Some(n) : n \in -1..MaxExec}

VARIABLES
    without_gc,      \* self.without_gc
    arg,             \* self.arg
    gc_enabled,      \* the process-wide gc.isenabled()
    gc_was_enabled,  \* run_without_gc's local
    state,           \* Idle, Measuring, or how the session ended
    target_time, timeout, max_executions,   \* the session's parameters
    clock,           \* the latest reading of timer()
    start_clock,     \* min_run_time's local
    best_run_time,   \* min_run_time's local
    invocations,     \* how many times func(arg) was called
    log,             \* per invocation: what it did, its duration, and the
                     \* elapsed time read on line 77 after it
    raised,          \* the exception min_run_time ended with, or None
    returned,        \* the value min_run_time returned, or None
    gc_before        \* gc.isenabled() when min_run_time was called

\* print_performances (src/__main__.py)
VARIABLES
    perf_pc,         \* idle, test (line 148), timer (line 151), done, raised
    timers,          \* the local list of timers, each named by its solver
    new_timers,      \* the local list of the timers that are kept
    test_index,      \* the index of the performance test being run
    timer_index,     \* the position in timers of the loop of line 151
    printed,         \* the outcome lines printed so far
    measured,        \* per call of timer.min_run_time: test, solver, outcome
    escaped          \* the exception that left print_performances, or None

\* one call of a function of src/mathtools.py or src/problems/p001.py
VARIABLES
    call,            \* the function called and its arguments, or None
    result           \* what the call returned or raised, or None

timerVars == << without_gc, arg, gc_enabled, gc_was_enabled, state, target_time,
                timeout, max_executions, clock, start_clock, best_run_time,
                invocations, log, raised, returned, gc_before >>
perfVars == << perf_pc, timers, new_timers, test_index, timer_index, printed,
               measured, escaped >>
funcVars == << call, result >>
vars == << timerVars, perfVars, funcVars >>

\* no call of print_performances is under way
PerfIdle ==
    /\ perf_pc = "idle"
    /\ timers = <<>> /\ new_timers = <<>>
    /\ test_index = 0 /\ timer_index = 0
    /\ printed = <<>> /\ measured = <<>>
    /\ escaped = <<>>

\* no function has been called
FuncIdle == call = <<>> /\ result = <<>>

\* a reading of timer() taken when the latest reading was c
Readings(c) == c..(c + MaxStep)

\* ---------------------------------------------------- pure helpers ----
\* the test of line 65 with its last comparison inverted
NoTerminationCondition_Inverted(tt, to, me) == tt = to /\ to = me /\ me # None

\* line 65: target_time is timeout is max_executions is None
NoTerminationCondition(tt, to, me) == tt = to /\ to = me /\ me = None

\* run_without_gc, entry (lines 17-22): the gc flag while the loop runs
GcOnEnter(wgc, enabled) == IF wgc THEN FALSE ELSE enabled

\* run_without_gc's exit re-enabling the collector whatever it was before
GcOnExit_ForceEnable(wgc, was_enabled, enabled) ==
    IF wgc THEN TRUE ELSE enabled

\* run_without_gc, exit (lines 24-26): the gc flag once the block is left
GcOnExit(wgc, was_enabled, enabled) ==
    IF wgc THEN (IF was_enabled THEN TRUE ELSE enabled) ELSE enabled

\* handle_callee_error without its except MemoryError clause
HandleCalleeError_WrapsAll(e) ==
    IF IsException(e.type) THEN Exc("CalleeError", 0, None) ELSE e

\* handle_callee_error (lines 31-36): the exception that leaves the block
\* when the callable raised e
HandleCalleeError(e) ==
    IF e.type = "MemoryError" THEN e
    ELSE IF IsException(e.type) THEN Exc("CalleeError", 0, None)
    ELSE e

\* lines 73-74 with the comparison dropped: the latest run time is kept
NewBest_KeepsLatest(run_time, best) == Some(run_time)

\* lines 73-74
NewBest(run_time, best) ==
    IF best = Infinity \/ run_time < Val(best) THEN Some(run_time) ELSE best

\* line 78 without the elapsed time: run_time/2 > target_time
Breaks_IgnoresElapsed(tt, time_so_far, run_time) ==
    tt # None /\ run_time > 2 * Val(tt)

\* line 78 with half the run time subtracted instead of added
Breaks_SubtractsHalfRun(tt, time_so_far, run_time) ==
    tt # None /\ 2 * time_so_far - run_time > 2 * Val(tt)

\* lines 76-79: whether the loop breaks after a run
Breaks(tt, time_so_far, run_time) ==
    tt # None /\ 2 * time_so_far + run_time > 2 * Val(tt)

\* line 71, itertools.islice(itertools.repeat(None), max_executions): a
\* negative stop is rejected with ValueError
IsliceRejects(me) == me # None /\ Val(me) < 0
\* islice stopping one item late
IsliceExhausted_OneLate(me, n) == me # None /\ n > Val(me)
\* islice stopping one item early
IsliceExhausted_OneEarly(me, n) == me # None /\ n + 1 >= Val(me)
\* line 71: islice yields no further item once it has yielded stop items
IsliceExhausted(me, n) == me # None /\ n >= Val(me)

\* the state a session is in once it ended by raising e
StateOfException(e) ==
    CASE e.type = "Timeout" -> "TimedOut"
      [] e.type = "MemoryError" -> "MemoryExhausted"
      [] e.type = "CalleeError" -> "CalleeFailed"
      [] e.type = "ValueError" /\ e.run = 0 -> "ConfigError"
      [] OTHER -> "Propagated"

\* ------------------------------------------------------------- Init ---
Init ==
    /\ without_gc \in BOOLEAN
    /\ arg = None
    /\ gc_enabled \in BOOLEAN
    /\ gc_was_enabled = FALSE
    /\ state = "Idle"
    /\ target_time = None /\ timeout = None /\ max_executions = None
    /\ clock = 0
    /\ start_clock = 0
    /\ best_run_time = Infinity
    /\ invocations = 0
    /\ log = <<>>
    /\ raised = None
    /\ returned = None
    /\ gc_before = gc_enabled
    /\ PerfIdle /\ FuncIdle

\* ---------------------------------------------------------- actions ---
\* SingleArgTimer.min_run_time (lines 121-123) up to the loop of
\* Timer.min_run_time (lines 65-70)
Call(a, tt, to, me) ==
    /\ state = "Idle"
    /\ arg' = Some(a)
    /\ target_time' = tt /\ timeout' = to /\ max_executions' = me
    /\ gc_before' = gc_enabled
    /\ IF NoTerminationCondition(tt, to, me)
       THEN /\ raised' = Some(Exc("ValueError", 0, None))
            /\ state' = StateOfException(Val(raised'))
            /\ UNCHANGED << clock, start_clock, best_run_time, gc_enabled,
                            gc_was_enabled >>
       ELSE /\ \E t \in Readings(clock) : clock' = t /\ start_clock' = t
            /\ best_run_time' = Infinity
            /\ gc_was_enabled' = IF without_gc THEN gc_enabled ELSE gc_was_enabled
            /\ gc_enabled' = GcOnEnter(without_gc, gc_enabled)
            /\ state' = "Measuring"
            /\ raised' = None
    /\ UNCHANGED << without_gc, invocations, log, returned >>

\* line 71, max_executions negative: islice raises ValueError inside the
\* with block, which run_without_gc leaves through its finally clause
IsliceError ==
    /\ state = "Measuring"
    /\ IsliceRejects(max_executions)
    /\ raised' = Some(Exc("ValueError", 0, None))
    /\ state' = StateOfException(Val(raised'))
    /\ gc_enabled' = GcOnExit(without_gc, gc_was_enabled, gc_enabled)
    /\ UNCHANGED << without_gc, arg, gc_was_enabled, target_time, timeout,
                    max_executions, clock, start_clock, best_run_time,
                    invocations, log, returned, gc_before >>

\* lines 71 and 81: the iterator is exhausted, the with block is left and
\* best_run_time is returned
LoopExhausted ==
    /\ state = "Measuring"
    /\ ~IsliceRejects(max_executions)
    /\ IsliceExhausted(max_executions, invocations)
    /\ returned' = Some(best_run_time)
    /\ state' = "Succeeded"
    /\ gc_enabled' = GcOnExit(without_gc, gc_was_enabled, gc_enabled)
    /\ UNCHANGED << without_gc, arg, gc_was_enabled, target_time, timeout,
                    max_executions, clock, start_clock, best_run_time,
                    invocations, log, raised, gc_before >>

\* lines 72-79 with single_run_time (lines 112-119), the callable returning
RunReturns ==
    /\ state = "Measuring"
    /\ ~IsliceRejects(max_executions)
    /\ ~IsliceExhausted(max_executions, invocations)
    /\ invocations < MaxRuns
    /\ \E t1 \in Readings(clock) : \E t2 \in Readings(t1) : \E t3 \in Readings(t2) :
         LET run_time == t2 - t1
             time_so_far == t3 - start_clock
         IN  /\ invocations' = invocations + 1
             /\ log' = Append(log, [did |-> "return", run_time |-> Some(run_time),
                                    time_so_far |-> IF target_time # None
                                                    THEN Some(time_so_far)
                                                    ELSE None])
             /\ best_run_time' = NewBest(run_time, best_run_time)
             /\ clock' = IF target_time # None THEN t3 ELSE t2
             /\ IF Breaks(target_time, time_so_far, run_time)
                THEN /\ returned' = Some(best_run_time')
                     /\ state' = "Succeeded"
                     /\ gc_enabled' = GcOnExit(without_gc, gc_was_enabled, gc_enabled)
                ELSE UNCHANGED << returned, state, gc_enabled >>
    /\ UNCHANGED << without_gc, arg, gc_was_enabled, target_time, timeout,
                    max_executions, start_clock, raised, gc_before >>

\* a run whose exception is swallowed, so that the loop goes on
RunRaises_Swallowed(type) ==
    /\ state = "Measuring"
    /\ ~IsliceRejects(max_executions)
    /\ ~IsliceExhausted(max_executions, invocations)
    /\ invocations < MaxRuns
    /\ \E t1 \in Readings(clock) :
         /\ invocations' = invocations + 1
         /\ log' = Append(log, [did |-> type, run_time |-> None,
                                time_so_far |-> None])
         /\ clock' = t1
    /\ UNCHANGED << without_gc, arg, gc_enabled, gc_was_enabled, state,
                    target_time, timeout, max_executions, start_clock,
                    best_run_time, raised, returned, gc_before >>

\* line 72 with single_run_time (lines 112-119), the callable raising
RunRaises(type) ==
    /\ state = "Measuring"
    /\ ~IsliceRejects(max_executions)
    /\ ~IsliceExhausted(max_executions, invocations)
    /\ invocations < MaxRuns
    /\ \E t1 \in Readings(clock) :
         LET e == Exc(type, invocations + 1, None)
             out == HandleCalleeError(e)
         IN  /\ invocations' = invocations + 1
             /\ log' = Append(log, [did |-> type, run_time |-> None,
                                    time_so_far |-> None])
             /\ clock' = t1
             /\ raised' = Some(out)
             /\ state' = StateOfException(out)
             /\ gc_enabled' = GcOnExit(without_gc, gc_was_enabled, gc_enabled)
    /\ UNCHANGED << without_gc, arg, gc_was_enabled, target_time, timeout,
                    max_executions, start_clock, best_run_time, returned,
                    gc_before >>

Next ==
    \/ /\ \E a \in Args, tt \in TargetTimes, to \in Timeouts, me \in MaxExecutions :
            Call(a, tt, to, me)
       /\ UNCHANGED << perfVars, funcVars >>
    \/ IsliceError /\ UNCHANGED << perfVars, funcVars >>
    \/ LoopExhausted /\ UNCHANGED << perfVars, funcVars >>
    \/ RunReturns /\ UNCHANGED << perfVars, funcVars >>
    \/ /\ \E type \in Raises : RunRaises(type)
       /\ UNCHANGED << perfVars, funcVars >>

Spec == Init /\ [][Next]_vars

\* ---------------------------------------------- the loop, unbounded ---
(***************************************************************************)
(* FairSpec: the same session with a callable that returns on every call   *)
(* and takes at least one tick of the clock, and with the loop of line 71  *)
(* not cut off after MaxRuns runs.  A run is two steps, the call of        *)
(* func(arg) and its return, so that the position inside the loop body is  *)
(* part of the state.  To keep the state space finite the counters stop    *)
(* growing where they can no longer change what the loop does:             *)
(* invocations at MaxRuns, which is more than any max_executions, and the  *)
(* elapsed time at Horizon, which is more than any target_time or timeout; *)
(* log keeps the first MaxRuns runs.                                       *)
(***************************************************************************)
Horizon == MaxTarget + MaxTimeout + MaxStep + 1
Least(a, b) == IF a <= b THEN a ELSE b
\* the reading t, kept within Horizon of the session's start
Within(t) == Least(t, start_clock + Horizon)

\* lines 71-72 and 113-117: islice yields an item, single_run_time reads
\* the clock and calls func(arg)
StartRun ==
    /\ state = "Measuring"
    /\ ~IsliceRejects(max_executions)
    /\ ~IsliceExhausted(max_executions, invocations)
    /\ \E t1 \in Readings(clock) : clock' = Within(t1)
    /\ invocations' = Least(invocations + 1, MaxRuns)
    /\ state' = "Running"
    /\ UNCHANGED << without_gc, arg, gc_enabled, gc_was_enabled, target_time,
                    timeout, max_executions, start_clock, best_run_time, log,
                    raised, returned, gc_before >>

\* lines 118-119 and 73-79: func(arg) returns after at least one tick, the
\* run time is taken, best_run_time is updated and the loop breaks or not
FinishRun ==
    /\ state = "Running"
    /\ \E t2 \in (clock + 1)..(clock + MaxStep) : \E t3 \in Readings(t2) :
         LET run_time == t2 - clock
             time_so_far == t3 - start_clock
         IN  /\ log' = IF Len(log) < MaxRuns
                       THEN Append(log, [did |-> "return",
                                         run_time |-> Some(run_time),
                                         time_so_far |-> IF target_time # None
                                                         THEN Some(time_so_far)
                                                         ELSE None])
                       ELSE log
             /\ best_run_time' = NewBest(run_time, best_run_time)
             /\ clock' = Within(IF target_time # None THEN t3 ELSE t2)
             /\ IF Breaks(target_time, time_so_far, run_time)
                THEN /\ returned' = Some(best_run_time')
                     /\ state' = "Succeeded"
                     /\ gc_enabled' = GcOnExit(without_gc, gc_was_enabled, gc_enabled)
                ELSE /\ state' = "Measuring"
                     /\ UNCHANGED << returned, gc_enabled >>
    /\ UNCHANGED << without_gc, arg, gc_was_enabled, target_time, timeout,
                    max_executions, start_clock, invocations, raised,
                    gc_before >>

FairNext ==
    \/ /\ \E a \in Args, tt \in TargetTimes, to \in Timeouts, me \in MaxExecutions :
            Call(a, tt, to, me)
       /\ UNCHANGED << perfVars, funcVars >>
    \/ IsliceError /\ UNCHANGED << perfVars, funcVars >>
    \/ LoopExhausted /\ UNCHANGED << perfVars, funcVars >>
    \/ StartRun /\ UNCHANGED << perfVars, funcVars >>
    \/ FinishRun /\ UNCHANGED << perfVars, funcVars >>

\* the interpreter runs the session's one thread on: a step that can be
\* taken is taken
FairSpec == Init /\ [][FairNext]_vars /\ WF_vars(FairNext)

\* ------------------------------------------------ print_performances ---
(***************************************************************************)
(* PerfSpec: print_performances of src/__main__.py, called with a list of  *)
(* solvers and a problem that has MaxTests performance tests.  What a call *)
(* of timer.min_run_time ends with is drawn from what Spec shows it can    *)
(* end with: a duration, MemoryError, CalleeError, or an exception of the  *)
(* callable that is no Exception; it never raises Timeout.                 *)
(***************************************************************************)
\* the number of performance tests of the problem
MaxTests == 2
\* the largest number of solvers print_performances is called with
MaxSolvers == 2
\* the largest duration, in ticks, that min_run_time returns
MaxTiming == 1

\* line 28
TIMING_MS_DECIMALS == 3

\* lines 33-41: the attributes of the namespace OUTCOME_STRS
OUTCOME_STRS ==
    [ CORRECT |-> "correct",
      INVALID_RESULT_TYPE |-> "type error",
      MEMORY_ERROR |-> "memory error",
      OTHER_ERROR |-> "unknown error",
      RECURSION_ERROR |-> "recursion error",
      TIMEOUT |-> "timeout",
      TOO_LONG_TO_PRINT |-> "number too long" ]

\* the solvers of a problem, by name (src/problems/p001.py)
SolverNames == << "iterator_based", "add_each", "set_based", "cycle_based" >>

\* what timer.min_run_time ends with: a returned duration or an exception
SessionOutcomes ==
    {[kind |-> "timing", timing |-> d] : d \in 0..MaxTiming}
        \cup {[kind |-> k, timing |-> 0] :
                 k \in {"MemoryError", "CalleeError", "KeyboardInterrupt"}}

\* lines 162-164: "{time:.{decimals}f}ms", the time in milliseconds with
\* the given number of decimals
FormatTiming(timing) ==
    [ms |-> timing * 1000, decimals |-> TIMING_MS_DECIMALS, unit |-> "ms"]

\* the attribute `name` of a namespace: its value, or AttributeError
GetAttr(namespace, name) ==
    IF name \in DOMAIN namespace
    THEN [ok |-> TRUE, value |-> namespace[name]]
    ELSE [ok |-> FALSE, value |-> "AttributeError"]

\* lines 152-160: the except clause that catches the exception
\* min_run_time ended with, and the timing_str it yields, or the exception
\* that leaves the try statement
Handler(outcome) ==
    CASE outcome.kind = "Timeout" -> GetAttr(OUTCOME_STRS, "TIMEOUT")
      [] outcome.kind = "MemoryError" -> GetAttr(OUTCOME_STRS, "MEMORY_ERROR")
      [] outcome.kind = "CalleeError" -> GetAttr(OUTCOME_STRS, "FAILED")
      [] OTHER -> [ok |-> FALSE, value |-> outcome.kind]

\* line 146: print_performances is called with the first n solvers
PerfCall(n) ==
    /\ perf_pc = "idle"
    /\ timers' = SubSeq(SolverNames, 1, n)
    /\ test_index' = 0
    /\ perf_pc' = "test"
    /\ UNCHANGED << new_timers, timer_index, printed, measured, escaped >>

\* lines 148-150: the next performance test, or the end of the function
NextTest ==
    /\ perf_pc = "test"
    /\ IF test_index < MaxTests
       THEN /\ printed' = Append(printed, [test |-> test_index, solver |-> "",
                                           outcome |-> "Performance test"])
            /\ new_timers' = <<>>
            /\ timer_index' = 1
            /\ perf_pc' = "timer"
       ELSE /\ perf_pc' = "done"
            /\ UNCHANGED << printed, new_timers, timer_index >>
    /\ UNCHANGED << timers, test_index, measured, escaped >>

\* lines 151-166: one timer of the list is measured and its line printed
MeasureTimer(outcome) ==
    /\ perf_pc = "timer"
    /\ timer_index <= Len(timers)
    /\ LET solver == timers[timer_index]
           handled == Handler(outcome)
       IN  /\ measured' = Append(measured, [test |-> test_index,
                                            solver |-> solver,
                                            outcome |-> outcome.kind])
           /\ IF outcome.kind = "timing"
              THEN /\ printed' = Append(printed,
                                        [test |-> test_index, solver |-> solver,
                                         outcome |-> FormatTiming(outcome.timing)])
                   /\ new_timers' = Append(new_timers, solver)
                   /\ timer_index' = timer_index + 1
                   /\ UNCHANGED << perf_pc, escaped >>
              ELSE IF handled.ok
              THEN /\ printed' = Append(printed,
                                        [test |-> test_index, solver |-> solver,
                                         outcome |-> handled.value])
                   /\ timer_index' = timer_index + 1
                   /\ UNCHANGED << new_timers, perf_pc, escaped >>
              ELSE /\ escaped' = Some(handled.value)
                   /\ perf_pc' = "raised"
                   /\ UNCHANGED << printed, new_timers, timer_index >>
    /\ UNCHANGED << timers, test_index >>

\* line 167: the timers that are kept are the timers of the next test
EndOfTimers ==
    /\ perf_pc = "timer"
    /\ timer_index > Len(timers)
    /\ timers' = new_timers
    /\ test_index' = test_index + 1
    /\ perf_pc' = "test"
    /\ UNCHANGED << new_timers, timer_index, printed, measured, escaped >>

PerfNext ==
    \/ (\E n \in 1..MaxSolvers : PerfCall(n)) /\ UNCHANGED << timerVars, funcVars >>
    \/ NextTest /\ UNCHANGED << timerVars, funcVars >>
    \/ (\E outcome \in SessionOutcomes : MeasureTimer(outcome))
          /\ UNCHANGED << timerVars, funcVars >>
    \/ EndOfTimers /\ UNCHANGED << timerVars, funcVars >>

PerfSpec == Init /\ [][PerfNext]_vars

\* ------------------------------------------------- mathtools, solvers ---
(***************************************************************************)
(* FuncSpec: one call of a function of src/mathtools.py or of a solver of  *)
(* src/problems, with its arguments drawn from bounded sets.  A call       *)
(* returns Return(v) or raises Raise(type).  The checks under __debug__    *)
(* are taken to run (the interpreter's default), and int(math.sqrt(n)) is  *)
(* taken to be exact, which it is for the numbers of these bounds.         *)
(***************************************************************************)
\* the largest number that prime_factors is called with
MaxN == 40

Return(v) == [ok |-> TRUE, value |-> v]
Raise(type) == [ok |-> FALSE, value |-> type]

\* src/checkinput.py, lines 8-10 and 21-23, for an integer x
MustBePositiveInt(x) == IF x <= 0 THEN Raise("ValueError") ELSE Return(x)

\* int(math.sqrt(n)) for n >= 0
IntSqrt(n) == CHOOSE r \in 0..n : r * r <= n /\ (r + 1) * (r + 1) > n

\* lines 137-139
LeastDivisorLimit(n) == IntSqrt(n) + 1

\* line 123 with lines 114 and 130-131: the next item of count(3, 2), which
\* is read only when the divisor moves on
NextDivisor(divisor) == IF divisor = 2 THEN 3 ELSE divisor + 2

\* lines 117-124: the loop of prime_factors and its last yield; line 121
\* assigns next_factor_stop, a name that nothing reads, so that
\* next_factor_limit keeps the value of line 116
RECURSIVE PrimeFactorsLoop(_, _, _, _)
PrimeFactorsLoop(n, divisor, next_factor_limit, yielded) ==
    IF divisor < next_factor_limit
    THEN IF n % divisor = 0
         THEN PrimeFactorsLoop(n \div divisor, divisor, next_factor_limit,
                               Append(yielded, divisor))
         ELSE PrimeFactorsLoop(n, NextDivisor(divisor), next_factor_limit,
                               yielded)
    ELSE Append(yielded, n)

\* lines 103-124: the items that the generator prime_factors(n) yields
PrimeFactors(n) ==
    IF ~MustBePositiveInt(n).ok THEN MustBePositiveInt(n)
    ELSE IF n = 1 THEN Return(<<>>)
    ELSE Return(PrimeFactorsLoop(n, 2, LeastDivisorLimit(n), <<>>))

\* the longest iterable that item_by_index is called with; the indices run
\* from -(MaxLen + 1) to MaxLen + 1, one beyond both ends
MaxLen == 3

Items == {"a", "b", "c"}

RECURSIVE SeqsUpTo(_)
SeqsUpTo(n) ==
    IF n = 0 THEN {<<>>}
    ELSE SeqsUpTo(n - 1) \cup
         {Append(xs, x) : xs \in {ys \in SeqsUpTo(n - 1) : Len(ys) = n - 1},
                          x \in Items}

Iterables == SeqsUpTo(MaxLen)
Indices == (0 - (MaxLen + 1))..(MaxLen + 1)

\* lines 76-80: next(itertools.islice(iterable, index, None)) skips index
\* items and returns the one after them; StopIteration becomes IndexError
RECURSIVE IsliceNext(_, _)
IsliceNext(iterable, index) ==
    IF iterable = <<>> THEN Raise("IndexError")
    ELSE IF index = 0 THEN Return(Head(iterable))
    ELSE IsliceNext(Tail(iterable), index - 1)

Deque_KeepsFirst(iterable, maxlen) ==
    IF Len(iterable) <= maxlen THEN iterable ELSE SubSeq(iterable, 1, maxlen)

\* line 84: collections.deque(iterable, maxlen): each item is appended on the
\* right, and a full deque drops its leftmost item first
RECURSIVE DequeAppendAll(_, _, _)
DequeAppendAll(tail, iterable, maxlen) ==
    IF iterable = <<>> THEN tail
    ELSE DequeAppendAll(
             IF Len(tail) = maxlen
             THEN Append(Tail(tail), Head(iterable))
             ELSE Append(tail, Head(iterable)),
             Tail(iterable), maxlen)

Deque(iterable, maxlen) == DequeAppendAll(<<>>, iterable, maxlen)

\* lines 82-88, for index < 0: tail[index] counts from the right end
ItemByNegativeIndex(iterable, index) ==
    LET tail == Deque(iterable, 0 - index)
    IN  IF Len(tail) + index >= 0
        THEN Return(tail[Len(tail) + index + 1])
        ELSE Raise("IndexError")

\* lines 61-80
ItemByIndex(iterable, index) ==
    IF index < 0 THEN ItemByNegativeIndex(iterable, index)
    ELSE IsliceNext(iterable, index)

\* src/problems/p003.py, lines 14-16
P003Main(number) ==
    IF PrimeFactors(number).ok
    THEN ItemByIndex(PrimeFactors(number).value, 0 - 1)
    ELSE PrimeFactors(number)

\* the largest magnitude of a start or stop that arithmetic_series is called
\* with, and the largest step; the steps run from -1
MaxInt == 4
MaxStepArg == 3

\* src/pytools.py, lines 33-34: an argument is NotGiven or Some(its value)
NotGiven == <<>>
IsGiven(x) == x # NotGiven

\* src/pytools.py, lines 36-62: the given arguments up to the first NotGiven;
\* a given argument after a NotGiven one is a ValueError
RECURSIVE TakeWhileGiven(_)
TakeWhileGiven(args) ==
    IF args = <<>> \/ ~IsGiven(Head(args)) THEN <<>>
    ELSE <<Val(Head(args))>> \o TakeWhileGiven(Tail(args))

IfGiven(args) ==
    LET given == TakeWhileGiven(args)
    IN  IF \E i \in (Len(given) + 1)..Len(args) : IsGiven(args[i])
        THEN Raise("ValueError")
        ELSE Return(given)

\* range(*args) of one, two or three integers; range() refuses a step of 0
Range(args) ==
    IF Len(args) = 1 THEN Return([start |-> 0, stop |-> args[1], step |-> 1])
    ELSE IF Len(args) = 2
    THEN Return([start |-> args[1], stop |-> args[2], step |-> 1])
    ELSE IF args[3] = 0 THEN Raise("ValueError")
    ELSE Return([start |-> args[1], stop |-> args[2], step |-> args[3]])

\* len(seq) of a range with a positive step
RangeLen(seq) ==
    IF seq.start < seq.stop
    THEN (seq.stop - seq.start - 1) \div seq.step + 1
    ELSE 0

\* seq[0] and seq[-1] of a range that is not empty
RangeFirst(seq) == seq.start
RangeLast(seq) == seq.start + (RangeLen(seq) - 1) * seq.step

NumElements_WithoutLast(first, last, step) == (last - first) \div step

\* line 54
NumElements(first, last, step) == (last - first) \div step + 1

\* src/mathtools.py, lines 25-58
ArithmeticSeries(a, b, step) ==
    LET given == IfGiven(<<a, b, step>>)
        seq == Range(given.value)
    IN  IF ~given.ok THEN given
        ELSE IF ~seq.ok THEN seq
        ELSE IF seq.value.start > seq.value.stop THEN Raise("ValueError")
        ELSE IF ~MustBePositiveInt(seq.value.step).ok
        THEN MustBePositiveInt(seq.value.step)
        ELSE IF seq.value.start = seq.value.stop THEN Return(0)
        ELSE LET first == RangeFirst(seq.value)
                 last == RangeLast(seq.value)
                 num_elements == NumElements(first, last, seq.value.step)
             IN  Return((num_elements * (first + last)) \div 2)

\* the largest divisor and the largest stop that the solvers of problem 1
\* are called with
MaxDivisor == 4
MaxStop == 9

DivisorSets == (SUBSET (1..MaxDivisor)) \ {{}}
Stops == 0..MaxStop

RECURSIVE SumOf(_)
SumOf(numbers) ==
    IF numbers = {} THEN 0
    ELSE LET n == CHOOSE x \in numbers : TRUE
         IN  n + SumOf(numbers \ {n})

\* range(0, stop, step) as a set, for step > 0
RangeSet(stop, step) == {n \in 0..(stop - 1) : n % step = 0}

\* src/mathtools.py, line 142: fractions.gcd, Euclid's algorithm, for
\* positive a and b
RECURSIVE BinaryGcd(_, _)
BinaryGcd(a, b) == IF b = 0 THEN a ELSE BinaryGcd(b, a % b)

\* src/mathtools.py, lines 144-146
BinaryLcm(a, b) == (a \div BinaryGcd(a, b)) * b

\* src/mathtools.py, lines 152-154: functools.reduce over a non-empty set
RECURSIVE Lcm(_)
Lcm(numbers) ==
    LET n == CHOOSE x \in numbers : TRUE
    IN  IF numbers = {n} THEN n ELSE BinaryLcm(Lcm(numbers \ {n}), n)

\* src/problems/p001.py, lines 35-41: the sum of the generator's items
RECURSIVE IteratorSum(_, _, _)
IteratorSum(n, stop, divisors) ==
    IF n >= stop THEN 0
    ELSE (IF \E d \in divisors : n % d = 0 THEN n ELSE 0)
         + IteratorSum(n + 1, stop, divisors)

IteratorBased(divisors, stop) == IteratorSum(0, stop, divisors)

\* src/problems/p001.py, lines 51-56
SetBased(divisors, stop) ==
    SumOf(UNION {RangeSet(stop, divisor) : divisor \in divisors})

\* src/problems/p001.py, lines 58-85
CycleBased(divisors, stop) ==
    LET cycle_len == Lcm(divisors)
        num_periods == stop \div cycle_len
        leftover_part_len == stop % cycle_len
        half_cycle_stop == cycle_len \div 2
        extras_from_bottom == leftover_part_len <= half_cycle_stop
        extras_stop == IF extras_from_bottom THEN leftover_part_len
                       ELSE cycle_len - leftover_part_len + 1
        half_cycle ==
            UNION {RangeSet(half_cycle_stop, divisor) : divisor \in divisors}
        extras == {multiple \in half_cycle : multiple < extras_stop}
        num_numbers_in_cycle ==
            Cardinality(half_cycle) * 2 - (cycle_len % 2)
        period_bases_sum ==
            ArithmeticSeries(Some(num_periods), NotGiven, NotGiven).value
            * cycle_len * num_numbers_in_cycle
        addends_sum_per_period ==
            ((num_numbers_in_cycle - 1) * cycle_len) \div 2
        period_addends_sum == addends_sum_per_period * num_periods
        periods_sum == period_bases_sum + period_addends_sum
        num_leftovers ==
            IF extras_from_bottom THEN Cardinality(extras)
            ELSE num_numbers_in_cycle - Cardinality(extras) + 1
        leftovers_bases_sum == num_leftovers * num_periods * cycle_len
        leftovers_addends_sum ==
            IF extras_from_bottom THEN SumOf(extras)
            ELSE addends_sum_per_period
                 - (Cardinality(extras) - 1) * cycle_len + SumOf(extras)
        leftovers_sum == leftovers_bases_sum + leftovers_addends_sum
    IN  periods_sum + leftovers_sum

Ints == (0 - MaxInt)..MaxInt
OptionalStops == {NotGiven} \cup {Some(b) : b \in Ints}
OptionalSteps == {NotGiven} \cup {Some(step) : step \in (0 - 1)..MaxStepArg}

\* a call of f(args) that has not been made yet returns or raises
Called(f, args, outcome) ==
    /\ FuncIdle
    /\ call' = Some([func |-> f, args |-> args])
    /\ result' = Some(outcome)

\* list(mathtools.prime_factors(n))
CallPrimeFactors(n) == Called("prime_factors", <<n>>, PrimeFactors(n))

\* problems.p003.main with args.number = number
CallP003Main(number) == Called("p003.main", <<number>>, P003Main(number))

\* mathtools.arithmetic_series(a), (a, b) or (a, b, step)
CallArithmeticSeries(a, b, step) ==
    Called("arithmetic_series", <<a, b, step>>,
           ArithmeticSeries(a, b, step))

\* mathtools.item_by_index(iter(xs), index)
CallItemByIndex(xs, index) ==
    Called("item_by_index", <<xs, index>>, ItemByIndex(xs, index))

\* the three solvers of problem 1 run on the same args, as print_solutions
\* and the tests run every solver of problem.solvers
CallP001Solvers(divisors, stop) ==
    Called("p001", <<divisors, stop>>,
           Return([iterator_based |-> IteratorBased(divisors, stop),
                   set_based |-> SetBased(divisors, stop),
                   cycle_based |-> CycleBased(divisors, stop)]))

FuncNext ==
    \/ /\ \E n \in 0..MaxN : CallPrimeFactors(n)
       /\ UNCHANGED << timerVars, perfVars >>
    \/ /\ \E number \in 1..MaxN : CallP003Main(number)
       /\ UNCHANGED << timerVars, perfVars >>
    \/ /\ \E a \in Ints, b \in OptionalStops, step \in OptionalSteps :
              CallArithmeticSeries(Some(a), b, step)
       /\ UNCHANGED << timerVars, perfVars >>
    \/ /\ \E xs \in Iterables, index \in Indices : CallItemByIndex(xs, index)
       /\ UNCHANGED << timerVars, perfVars >>
    \/ /\ \E divisors \in DivisorSets, stop \in Stops :
              CallP001Solvers(divisors, stop)
       /\ UNCHANGED << timerVars, perfVars >>

FuncSpec == Init /\ [][FuncNext]_vars

\* ------------------------------------------------------------ claims ---
Ended == state \notin {"Idle", "Measuring"}
AllUnset == target_time = None /\ timeout = None /\ max_executions = None
\* the session's elapsed time at the latest reading of the clock
Elapsed == clock - start_clock
\* the durations of the runs completed so far
Durations == {Val(log[i].run_time) : i \in {j \in 1..Len(log) : log[j].did = "return"}}
Minimum(S) == CHOOSE m \in S : \A x \in S : m <= x

\* C1: a session called with target_time, timeout and max_executions all
\* None ends with ValueError, and the callable has not been invoked.
C1_NoConditionIsValueErrorBeforeAnyRun ==
    (state # "Idle" /\ AllUnset) =>
        /\ state = "ConfigError"
        /\ raised = Some(Exc("ValueError", 0, None))
        /\ returned = None
        /\ invocations = 0 /\ log = <<>>
C1_Witness == state = "ConfigError" /\ AllUnset /\ arg # None

\* C2: no session whose elapsed time exceeded a set timeout ends in
\* Succeeded (it ends in TimedOut instead): a session that returned has an
\* elapsed time of at most timeout.
C2_TimeoutIsEnforced ==
    (state = "Succeeded" /\ timeout # None) => Elapsed <= Val(timeout)

\* C3: when a run raises MemoryError the session ends by raising that very
\* MemoryError, not a CalleeError, and returns nothing.
C3_MemoryErrorPropagatesUnwrapped ==
    \A i \in 1..Len(log) :
        log[i].did = "MemoryError" =>
            /\ state = "MemoryExhausted"
            /\ raised = Some(Exc("MemoryError", i, None))
            /\ returned = None
C3_Witness ==
    /\ state = "MemoryExhausted"
    /\ Len(log) = 2 /\ log[2].did = "MemoryError"

\* C4: when a run raises anything but MemoryError the session ends by
\* raising CalleeError whose cause is the exception the callable raised.
C4_CalleeErrorRecordsCause ==
    \A i \in 1..Len(log) :
        log[i].did \notin {"return", "MemoryError"} =>
            /\ state = "CalleeFailed"
            /\ raised # None
            /\ Val(raised).type = "CalleeError"
            /\ Val(raised).cause = Some(Exc(log[i].did, i, None))

\* C5: the first run in which the callable raises ends the session: a
\* raising run is the last invocation, so a callable raising on its first
\* call is invoked exactly once.
C5_FirstFailureEndsSession ==
    /\ Len(log) = invocations
    /\ \A i \in 1..Len(log) :
          log[i].did # "return" => (i = invocations /\ Ended /\ raised # None)
C5_Witness ==
    /\ state = "CalleeFailed"
    /\ max_executions # None /\ Val(max_executions) >= 2
    /\ invocations = 1 /\ log[1].did = "ValueError"

\* C6: once the session has ended, by return or by exception, the gc flag
\* is what it was when min_run_time was called.
C6_GcFlagRestored == Ended => gc_enabled = gc_before
C6_Witness ==
    /\ without_gc /\ ~gc_before /\ ~gc_enabled
    /\ state = "CalleeFailed"

\* C7: with max_executions = N a session never invokes the callable more
\* than N times, and with max_executions = 1 an ended session has invoked
\* it exactly once, whatever target_time is.
C7_MaxExecutionsCapsInvocations ==
    (max_executions # None /\ Val(max_executions) >= 0) =>
        /\ invocations <= Val(max_executions)
        /\ (Ended /\ max_executions = Some(1)) => invocations = 1
C7_Witness ==
    /\ state = "Succeeded" /\ max_executions = Some(1) /\ invocations = 1
    /\ target_time # None
    /\ ~Breaks(target_time, Val(log[1].time_so_far), Val(log[1].run_time))

\* C8 as claimed: with target_time = 0 a session invokes the callable at
\* most once, for every non-decreasing clock.
C8_TargetZeroAtMostOneRun == target_time = Some(0) => invocations <= 1

\* C8 as amended: with target_time = 0 every run that was followed by
\* another run lasted 0 and ended with the clock still at the session's
\* start reading; a run after which the clock has advanced is the last.
C8_TargetZeroStopsOnceClockAdvanced ==
    target_time = Some(0) =>
        \A i \in 1..Len(log) :
            (log[i].did = "return" /\ (i < Len(log) \/ state = "Measuring")) =>
                /\ log[i].time_so_far = Some(0)
                /\ log[i].run_time = Some(0)
C8_Witness ==
    /\ target_time = Some(0) /\ max_executions = None
    /\ state = "Succeeded" /\ invocations = 1
    /\ log[1].run_time = Some(0) /\ Val(log[1].time_so_far) > 0

\* C9: best_run_time is always the minimum of the durations of the runs
\* completed so far, and a session that returns after at least one run
\* returns the minimum of the durations of its runs.
C9_ReturnsMinimumRunTime ==
    /\ best_run_time = IF Durations = {} THEN Infinity
                       ELSE Some(Minimum(Durations))
    /\ (state = "Succeeded" /\ Durations # {}) =>
           returned = Some(Some(Minimum(Durations)))
C9_Witness ==
    /\ state = "Succeeded" /\ Len(log) = 3
    /\ log[1].run_time = Some(1) /\ log[2].run_time = Some(0)
    /\ log[3].run_time = Some(1)
    /\ returned = Some(Some(0))

C11_ArgIsNoneAfterSession == Ended => arg = None

\* C16: with target_time set, a completed run whose elapsed time plus half
\* of its duration is greater than target_time is the last run of the
\* session, which then returns; a run that is followed by another run had
\* elapsed + duration/2 <= target_time, with max_executions not exhausted.
C16_HalfRunRuleAfterEveryRun ==
    target_time # None =>
        \A i \in 1..Len(log) :
            log[i].did = "return" =>
                LET over == 2 * Val(log[i].time_so_far) + Val(log[i].run_time)
                                > 2 * Val(target_time)
                IN  /\ over => (i = Len(log) /\ state = "Succeeded")
                    /\ i < Len(log) =>
                          /\ ~over
                          /\ max_executions # None => i < Val(max_executions)
C16_Witness ==
    /\ target_time = Some(2) /\ max_executions = None
    /\ state = "Succeeded" /\ Len(log) = 2
    /\ log[1].run_time = Some(1) /\ log[1].time_so_far = Some(1)
    /\ log[2].run_time = Some(1) /\ log[2].time_so_far = Some(2)

\* C17: with a valid budget and a callable that returns on every call (and
\* a clock that advances with each run), a session that is measuring
\* eventually ends in Succeeded, TimedOut, CalleeFailed or MemoryExhausted.
C17_SessionEventuallyEnds ==
    (state = "Measuring" /\ ~IsliceRejects(max_executions))
        ~> (state \in {"Succeeded", "TimedOut", "CalleeFailed", "MemoryExhausted"})

\* C12: every outcome of timer.min_run_time (a duration, Timeout,
\* MemoryError, CalleeError) gets an outcome line printed for its
\* candidate, none of them makes print_performances end with an exception,
\* and a candidate is measured on a test only if it has not failed before.
C12_EveryOutcomeIsPrintedAndTheLoopGoesOn ==
    \A k \in 1..Len(measured) :
        LET m == measured[k]
        IN  /\ m.outcome \in {"timing", "Timeout", "MemoryError", "CalleeError"} =>
                /\ \E i \in 1..Len(printed) :
                      printed[i].test = m.test /\ printed[i].solver = m.solver
                /\ ~(k = Len(measured) /\ perf_pc = "raised")
            /\ \A j \in 1..(k - 1) :
                  measured[j].solver = m.solver => measured[j].outcome = "timing"

\* the call that was made and what came of it
Func == IF call = None THEN "none" ELSE Val(call).func
FuncArgs == Val(call).args
Outcome == Val(result)
IsPrime(p) == p >= 2 /\ \A d \in 2..(p - 1) : p % d # 0
RECURSIVE Product(_)
Product(xs) == IF xs = <<>> THEN 1 ELSE Head(xs) * Product(Tail(xs))
LargestPrimeFactor(n) ==
    CHOOSE p \in 2..n :
        /\ IsPrime(p) /\ n % p = 0
        /\ \A q \in 2..n : (IsPrime(q) /\ n % q = 0) => q <= p

\* C13: for every positive integer n, prime_factors(n) yields only primes,
\* in non-decreasing order, whose product is n (nothing for n = 1), and
\* item_by_index(prime_factors(n), -1), the problem 3 solver, is the largest
\* prime factor of n for n >= 2.
C13_PrimeFactorsAreTheFactorisation ==
    /\ (Func = "prime_factors" /\ FuncArgs[1] >= 1) =>
          /\ Outcome.ok
          /\ \A i \in 1..Len(Outcome.value) : IsPrime(Outcome.value[i])
          /\ \A i \in 1..(Len(Outcome.value) - 1) :
                 Outcome.value[i] <= Outcome.value[i + 1]
          /\ Product(Outcome.value) = FuncArgs[1]
    /\ (Func = "p003.main" /\ FuncArgs[1] >= 2) =>
          /\ Outcome.ok
          /\ Outcome.value = LargestPrimeFactor(FuncArgs[1])

\* C15: for every finite iterable xs and every integer index i,
\* item_by_index(xs, i) returns list(xs)[i] when -len(xs) <= i < len(xs) and
\* raises IndexError otherwise, for non-negative and for negative i.
C15_ItemByIndexIsListIndexing ==
    Func = "item_by_index" =>
        LET xs == FuncArgs[1]
            i == FuncArgs[2]
        IN  IF 0 - Len(xs) <= i /\ i < Len(xs)
            THEN /\ Outcome.ok
                 /\ Outcome.value = xs[IF i >= 0 THEN i + 1 ELSE Len(xs) + i + 1]
            ELSE /\ ~Outcome.ok
                 /\ Outcome.value = "IndexError"
C15_Witness ==
    /\ Func = "item_by_index"
    /\ FuncArgs = << <<"a", "b", "c">>, 0 - 2 >>
    /\ Outcome = Return("b")

\* C14: for all integers a, b and step with step >= 1 and start <= stop,
\* arithmetic_series called with the arguments of range() returns
\* sum(range(...)) in the one-, two- and three-argument forms, and it raises
\* ValueError when start > stop or step <= 0.
C14_ArithmeticSeriesIsSumOfRange ==
    (Func = "arithmetic_series"
     /\ ~(FuncArgs[2] = NotGiven /\ FuncArgs[3] # NotGiven)) =>
        LET start == IF FuncArgs[2] = NotGiven THEN 0 ELSE Val(FuncArgs[1])
            stop == IF FuncArgs[2] = NotGiven THEN Val(FuncArgs[1])
                    ELSE Val(FuncArgs[2])
            step == IF FuncArgs[3] = NotGiven THEN 1 ELSE Val(FuncArgs[3])
        IN  IF step >= 1 /\ start <= stop
            THEN /\ Outcome.ok
                 /\ Outcome.value =
                        SumOf({n \in start..(stop - 1) : (n - start) % step = 0})
            ELSE /\ ~Outcome.ok
                 /\ Outcome.value = "ValueError"
C14_Witness ==
    /\ Func = "arithmetic_series"
    /\ FuncArgs = <<Some(0 - 4), Some(4), Some(3)>>
    /\ Outcome.ok /\ Outcome.value = 0 - 3

\* C18: for every non-empty set of positive divisors and every natural
\* number stop, cycle_based and set_based return what iterator_based
\* returns, the sum of the n in range(stop) that a divisor divides.
C18_SolversAgree ==
    Func = "p001" =>
        LET brute_force ==
                SumOf({n \in 0..(FuncArgs[2] - 1) :
                          \E d \in FuncArgs[1] : n % d = 0})
        IN  /\ Outcome.value.iterator_based = brute_force
            /\ Outcome.value.set_based = Outcome.value.iterator_based
            /\ Outcome.value.cycle_based = Outcome.value.iterator_based

=============================================================================
